---------------------------- MODULE Spec2Model ----------------------------
(***************************************************************************)
(* Nearest-hospital assignment and district aggregation, as computed by   *)
(* the map scripts of Project_Bangkok_The_Unhealthy_City.                 *)
(*                                                                         *)
(* One run of one script is a straight-line batch job.  The state is the  *)
(* loaded tables (hospitals, communities, district features) and the      *)
(* structures the script derives from them; each action is one stage of   *)
(* the script (one iteration of the assignment loop, the weight loop, the *)
(* district loops, the write-back, the save).                             *)
(*                                                                         *)
(* Scripts modelled (variable script):                                     *)
(*   "congestion"  BKK_Hospital_Congestion_ByDistrict.py (the same         *)
(*                 assignment / weight / district loops are repeated in    *)
(*                 BKK_Hospital_Default.py)                                *)
(*   "csmbs"       BKK_Hospital_Distance_CSMBS.py (BKK_Hospital_Distance_  *)
(*                 UHC.py is the same code on the UHC column)              *)
(*   "ratcha"      Ratchathewi_Hospital_Distance_Default.py                *)
(*   "wkr"         WKRHOSP_Hospital_Default.py                             *)
(*   "viz11"       viz11.py                                                *)
(*   "bangchan"    Bangchanpattana_Community_Default.py (find_nearest)     *)
(*                                                                         *)
(* Abstractions.  A coordinate pair is one of: a point of a small line of *)
(* positions on one parallel (k = "ok"), a text that float() rejects      *)
(* (k = "bad"), or a number that float() accepts and geopy rejects        *)
(* (k = "nan": an empty cell, read by pandas as NaN).  geodesic() is the  *)
(* distance along the line in whole units; the scripts only compare and   *)
(* store it.  A district polygon is the set of positions that shapely's   *)
(* contains() accepts (its interior) and the set on its boundary.         *)
(***************************************************************************)
EXTENDS Integers, Sequences, FiniteSets, TLC

VARIABLES
    script,            \* which script runs
    hospitals,         \* hospitals.csv: sequence of rows, row label = index
    communities,       \* communities.csv: sequence of rows
    district_features, \* districts geojson: sequence of features
    pc,                \* stage of the run
    comm_assigned,     \* list of (c_idx, nearest_idx, distance)
    c_i,               \* community rows the assignment loop has consumed
    nearest,           \* bangchan: the results of find_nearest
    w_i,               \* entries of comm_assigned the weight loop has consumed
    weight,            \* the 'weight' column of the table that carries it
    h_metrics_global,  \* ratcha: per-hospital num_communities / sum_population
    district_metrics,  \* dict: district name -> counters
    out_features,      \* per feature: the properties written back
    saved,             \* the output file has been written
    right_lines,       \* viz11: per-right connection layer, list of (c_idx, h_idx)
    run,               \* 1 in the first run of the script on the inputs, 2 in a rerun
    first_run,         \* what the first run computed, kept for comparison with a rerun
    call,              \* a call of a pure helper: function, argument, result
    defect,            \* what is missing from the working directory or the tables
    h_in_set,          \* ratcha: labels of the hospitals inside the target district
    comm_to_show,      \* ratcha: the entries of the communities put on the map
    linked_outside_hospitals_idx, \* ratcha: outside hospitals of inside communities
    linked_comms,      \* wkr: the entries of the communities linked to the target hospital
    conn_layer         \* ratcha: the connection lines drawn, list of (c_idx, h_idx)

vars == <<script, hospitals, communities, district_features, pc, comm_assigned,
          c_i, nearest, w_i, weight, h_metrics_global, district_metrics, out_features, saved,
          right_lines, run, first_run, call, defect,
          h_in_set, comm_to_show, linked_outside_hospitals_idx, linked_comms, conn_layer>>

\* the selections of the single-district and single-hospital maps
shown_vars == <<h_in_set, comm_to_show, linked_outside_hospitals_idx, linked_comms, conn_layer>>

---------------------------------------------------------------------------
(* Bounds of the model *)
MaxHosp == 2
MaxComm == 2

(* Python's None and float('inf'), as numbers outside the ranges of row   *)
(* labels (1..) and distances (0..).                                      *)
None == -1
inf == 1000

\* positions on the line; hospitals and communities are sampled on part of it
Pos == {1, 2, 3}
HospPos == {1, 3}
CommPos == {1, 2}
Coords(P) == [k : {"ok"}, v : P] \cup {[k |-> "bad", v |-> 0], [k |-> "nan", v |-> 0]}

Scripts == {"congestion", "csmbs", "ratcha", "wkr", "viz11", "bangchan"}
Filtered == {"csmbs"}
\* scripts whose loops wrap float() in try/except
Guarded == Scripts \ {"viz11"}

RECURSIVE SeqsUpTo(_, _)
SeqsUpTo(S, n) ==
    IF n = 0 THEN {<<>>}
    ELSE LET shorter == SeqsUpTo(S, n - 1)
         IN  shorter \cup {Append(s, x) : s \in {t \in shorter : Len(t) = n - 1}, x \in S}

---------------------------------------------------------------------------
(* Library behaviour the scripts rely on *)

\* float(x) of a coordinate cell: raises on text that is no number
float_ok(p) == p.k # "bad"

\* geopy.distance.geodesic: raises ValueError unless both points are finite
geodesic_ok(a, b) == a.k = "ok" /\ b.k = "ok"

geodesic(a, b) == IF a.v >= b.v THEN a.v - b.v ELSE b.v - a.v

(* The truthy parser.  A raw cell value is the sequence of its characters; *)
(* a missing cell (None, NaN) is the value Missing.                        *)
MaxLen == 2

Missing == <<"NaN">>

\* pd.isna(val)
isna(val) == val = Missing

Whitespace == {" "}

\* str.strip()
RECURSIVE lstrip(_)
lstrip(s) == IF s # <<>> /\ s[1] \in Whitespace THEN lstrip(Tail(s)) ELSE s
RECURSIVE rstrip(_)
rstrip(s) ==
    IF s # <<>> /\ s[Len(s)] \in Whitespace THEN rstrip(SubSeq(s, 1, Len(s) - 1)) ELSE s
strip(s) == rstrip(lstrip(s))

\* str.lower()
UpperCase == <<"A", "B", "C", "D", "E", "F", "G", "H", "I", "J", "K", "L", "M",
               "N", "O", "P", "Q", "R", "S", "T", "U", "V", "W", "X", "Y", "Z">>
LowerCase == <<"a", "b", "c", "d", "e", "f", "g", "h", "i", "j", "k", "l", "m",
               "n", "o", "p", "q", "r", "s", "t", "u", "v", "w", "x", "y", "z">>
lower_char(c) ==
    IF \E i \in DOMAIN UpperCase : UpperCase[i] = c
    THEN LowerCase[CHOOSE i \in DOMAIN UpperCase : UpperCase[i] = c]
    ELSE c
lower(s) == [k \in DOMAIN s |-> lower_char(s[k])]

(* float(s) on a decimal literal: an optional sign, digits with at most    *)
(* one point, at least one digit.  float_parses: no ValueError;            *)
(* float_positive: the value is > 0.                                       *)
Digits == {"0", "1", "2", "3", "4", "5", "6", "7", "8", "9"}
unsigned(s) == IF s # <<>> /\ s[1] \in {"+", "-"} THEN Tail(s) ELSE s
float_parses(s) ==
    LET body == unsigned(s)
        points == {k \in DOMAIN body : body[k] = "."}
    IN  /\ Cardinality(points) <= 1
        /\ \A k \in DOMAIN body \ points : body[k] \in Digits
        /\ \E k \in DOMAIN body : body[k] \in Digits
float_positive(s) ==
    /\ s[1] # "-"
    /\ \E k \in DOMAIN unsigned(s) : unsigned(s)[k] \in Digits \ {"0"}

(* pd.to_numeric(col, errors='coerce').fillna(0).astype(int) on one cell:  *)
(* a text that is no number becomes NaN, NaN becomes 0, and astype(int)    *)
(* drops the fraction (truncation towards zero).                           *)
DigitSeq == <<"0", "1", "2", "3", "4", "5", "6", "7", "8", "9">>
digit_value(c) == (CHOOSE n \in DOMAIN DigitSeq : DigitSeq[n] = c) - 1
RECURSIVE int_value(_)
int_value(ds) ==
    IF ds = <<>> THEN 0
    ELSE int_value(SubSeq(ds, 1, Len(ds) - 1)) * 10 + digit_value(ds[Len(ds)])
\* the digits before the point
int_part(body) ==
    LET points == {k \in DOMAIN body : body[k] = "."}
    IN  IF points = {} THEN body ELSE SubSeq(body, 1, (CHOOSE k \in points : TRUE) - 1)
coerce_count(val) ==
    IF isna(val) \/ ~float_parses(val) THEN 0
    ELSE (IF val[1] = "-" THEN -1 ELSE 1) * int_value(int_part(unsigned(val)))

\* "th:rap" and "th:chai" stand for the characters of the two Thai words of the tuple
AffirmativeWords ==
    {<<"1">>, <<"y">>, <<"y", "e", "s">>, <<"t", "r", "u", "e">>, <<"th:rap">>,
     <<"th:chai">>, <<"t">>, <<"o", "n">>}

\* mutant of truthy: the text is not trimmed
truthy_untrimmed(val) ==
    IF isna(val) THEN FALSE
    ELSE LET s == lower(val)
         IN  IF s \in AffirmativeWords THEN TRUE
             ELSE IF float_parses(s) /\ float_positive(s) THEN TRUE
             ELSE FALSE

\* truthy of BKK_Hospital_Distance_CSMBS.py and BKK_Hospital_Distance_UHC.py
truthy(val) ==
    IF isna(val) THEN FALSE
    ELSE LET s == lower(strip(val))
         IN  IF s \in AffirmativeWords THEN TRUE
             ELSE IF float_parses(s) /\ float_positive(s) THEN TRUE
             ELSE FALSE

\* truthy of Bangchanpattana_Community_Default.py, Ratchathewi_Hospital_Distance_CSMBS.py
\* and Ratchathewi_Hospital_Rights_CSMBS.py: return float(s) > 0 inside the try
truthy_return(val) ==
    IF isna(val) THEN FALSE
    ELSE LET s == lower(strip(val))
         IN  IF s \in AffirmativeWords THEN TRUE
             ELSE IF float_parses(s) THEN float_positive(s)
             ELSE FALSE

\* the scheme-column cells of the hospital rows
RawVals == {<<"y", "e", "s">>, <<"0">>}

---------------------------------------------------------------------------
(* Tables *)

\* the row labels of a table, in iteration order
RECURSIVE index_from(_, _)
index_from(n, k) == IF k > n THEN <<>> ELSE <<k>> \o index_from(n, k + 1)
index(tbl) == index_from(Len(tbl), 1)

\* mutant of csmbs_accept: the column is not consulted
csmbs_accept_all(row) == TRUE

\* csmbs: hospitals['csmbs_accept'] = hospitals[csmbs_col].apply(truthy)
csmbs_accept(row) == truthy(row.right)

\* boolean-mask selection: the labels of the accepted rows, order and labels kept
RECURSIVE select(_)
select(k) ==
    IF k > Len(hospitals) THEN <<>>
    ELSE (IF csmbs_accept(hospitals[k]) THEN <<k>> ELSE <<>>) \o select(k + 1)

\* csmbs: csmbs_hospitals = hospitals[hospitals['csmbs_accept'] == True]
csmbs_hospitals == select(1)

\* the labels of the table the assignment loop of the script iterates
assign_rows == IF script \in Filtered THEN csmbs_hospitals ELSE index(hospitals)

Range(s) == {s[k] : k \in DOMAIN s}

---------------------------------------------------------------------------
(* Nearest assignment *)

\* mutants of closer: only the first row is ever taken; a tie replaces the choice
closer_first_only(d, min_dist) == min_dist = inf
closer_or_equal(d, min_dist) == d <= min_dist
\* mutant of closer: a tie replaces the choice in a rerun only
closer_by_run(d, min_dist) == IF run = 2 THEN d <= min_dist ELSE d < min_dist

\* the update test of the linear scan
closer(d, min_dist) == d < min_dist

(* The inner loop over the hospital rows from row k on, for a community at *)
(* cpos.  raised: an exception left the loop.                              *)
RECURSIVE nearest_scan(_, _, _, _, _)
nearest_scan(cpos, rows, k, min_dist, nearest_idx) ==
    IF k > Len(rows)
    THEN [raised |-> FALSE, min_dist |-> min_dist, nearest_idx |-> nearest_idx]
    ELSE LET h_idx == rows[k]
             hpos  == hospitals[h_idx].pos
         IN  IF script \in Guarded /\ ~float_ok(hpos)
             THEN nearest_scan(cpos, rows, k + 1, min_dist, nearest_idx)
             ELSE IF ~geodesic_ok(cpos, hpos)
             THEN [raised |-> TRUE, min_dist |-> min_dist, nearest_idx |-> nearest_idx]
             ELSE LET d == geodesic(cpos, hpos)
                  IN  IF closer(d, min_dist)
                      THEN nearest_scan(cpos, rows, k + 1, d, h_idx)
                      ELSE nearest_scan(cpos, rows, k + 1, min_dist, nearest_idx)

\* viz11: hospitals[right] == "YES"
yes_exact(row) == row.right = <<"Y", "E", "S">>

\* viz11: eligible = hospitals[hospitals[right] == "YES"], as row labels
RECURSIVE eligible_from(_)
eligible_from(k) ==
    IF k > Len(hospitals) THEN <<>>
    ELSE (IF yes_exact(hospitals[k]) THEN <<k>> ELSE <<>>) \o eligible_from(k + 1)
eligible == eligible_from(1)

\* viz11: the lines of one "Connections" layer, community by community from row k on
RECURSIVE connections(_)
connections(k) ==
    IF k > Len(communities) \/ eligible = <<>> THEN <<>>
    ELSE LET r == nearest_scan(communities[k].pos, eligible, 1, inf, None)
         IN  (IF r.nearest_idx = None THEN <<>> ELSE <<[c |-> k, h |-> r.nearest_idx]>>)
             \o connections(k + 1)

\* mutant of unparsed_entry: the row is given the first hospital of the table
unparsed_to_first(c_idx) ==
    <<[c |-> c_idx,
       h |-> IF hospitals = <<>> THEN None ELSE 1,
       d |-> IF hospitals = <<>> THEN None ELSE 0]>>

\* mutant of unparsed_entry: the row is skipped without an entry
unparsed_skipped(c_idx) == <<>>

\* the entry appended for a community whose coordinates float() rejects
unparsed_entry(c_idx) == <<[c |-> c_idx, h |-> None, d |-> None]>>

\* the entry appended after the scan
scanned_entry(c_idx, r) ==
    <<[c |-> c_idx, h |-> r.nearest_idx,
       d |-> IF r.min_dist # inf \/ script = "viz11" THEN r.min_dist ELSE None]>>

(* One iteration of the outer loop: what it appends, and whether it raised *)
assign_one(c_idx) ==
    LET cpos == communities[c_idx].pos
        r    == nearest_scan(cpos, assign_rows, 1, inf, None)
    IN  IF script \in Guarded /\ ~float_ok(cpos)
        THEN [raised |-> FALSE, entries |-> unparsed_entry(c_idx)]
        ELSE IF r.raised THEN [raised |-> TRUE, entries |-> <<>>]
        ELSE [raised |-> FALSE, entries |-> scanned_entry(c_idx, r)]

(* Bangchanpattana: pred_uhc, pred_sss, pred_csmbs test the scheme column   *)
(* of the row with truthy; "None" is predicate=None.                       *)
Predicates == {"pred_uhc", "pred_sss", "pred_csmbs"}

pred(predicate, h) ==
    CASE predicate = "pred_uhc" -> truthy_return(h.uhc)
      [] predicate = "pred_sss" -> truthy_return(h.sss)
      [] predicate = "pred_csmbs" -> truthy_return(h.right)

(* Bangchanpattana: find_nearest(hosp_df, predicate) for the target        *)
(* community.                                                              *)
RECURSIVE find_nearest_scan(_, _, _, _, _)
find_nearest_scan(cpos, predicate, k, min_d, best_idx) ==
    IF k > Len(hospitals)
    THEN IF best_idx = None THEN [h |-> None, d |-> None]
                            ELSE [h |-> best_idx, d |-> min_d]
    ELSE LET h == hospitals[k]
         IN  IF ~float_ok(h.pos)
             THEN find_nearest_scan(cpos, predicate, k + 1, min_d, best_idx)
             ELSE IF predicate # "None" /\ ~pred(predicate, h)
             THEN find_nearest_scan(cpos, predicate, k + 1, min_d, best_idx)
             ELSE IF ~geodesic_ok(cpos, h.pos)
             THEN find_nearest_scan(cpos, predicate, k + 1, min_d, best_idx)
             ELSE IF closer(geodesic(cpos, h.pos), min_d)
             THEN find_nearest_scan(cpos, predicate, k + 1, geodesic(cpos, h.pos), k)
             ELSE find_nearest_scan(cpos, predicate, k + 1, min_d, best_idx)

find_nearest_filtered(predicate) ==
    find_nearest_scan(communities[1].pos,
                      IF predicate = "None" THEN "pred_uhc" ELSE predicate, 1, inf, None)

find_nearest(predicate) == find_nearest_scan(communities[1].pos, predicate, 1, inf, None)

---------------------------------------------------------------------------
(* Hospital weights *)

\* labels of the table that gets the 'weight' column
weight_rows == IF script \in Filtered THEN Range(csmbs_hospitals) ELSE DOMAIN hospitals

\* hospitals['weight'] = 0
zero_weight == [h \in weight_rows |-> 0]

\* h_metrics_global = {h_idx: {'num_communities': 0, 'sum_population': 0} ...}
zero_metrics == [h \in DOMAIN hospitals |-> [num_communities |-> 0, sum_population |-> 0]]

\* the guard of the weight loops: h_idx is not None and pd.notnull(h_idx)
counts(e) == e.h # None

\* mutant of add_weight: the cell is set, not incremented
add_weight_set(w, e) == IF counts(e) THEN [w EXCEPT ![e.h] = 1] ELSE w

\* hospitals.at[h_idx, 'weight'] += 1
add_weight(w, e) == IF counts(e) THEN [w EXCEPT ![e.h] = @ + 1] ELSE w

\* mutant of add_metrics: the population is not added, the row is counted
add_metrics_count(m, e) ==
    IF counts(e)
    THEN [m EXCEPT ![e.h].num_communities = @ + 1, ![e.h].sum_population = @ + 1]
    ELSE m

\* ratcha: num_communities += 1; sum_population += pop
add_metrics(m, e) ==
    IF counts(e)
    THEN [m EXCEPT ![e.h].num_communities = @ + 1,
                   ![e.h].sum_population = @ + communities[e.c].pop]
    ELSE m

\* wkr: cnt = Counter(assigned_idxs); weight = index.map(lambda idx: cnt.get(idx, 0))
RECURSIVE Counter(_, _, _)
Counter(entries, k, cnt) ==
    IF k > Len(entries) THEN cnt
    ELSE Counter(entries, k + 1,
                 IF counts(entries[k]) THEN [cnt EXCEPT ![entries[k].h] = @ + 1] ELSE cnt)

---------------------------------------------------------------------------
(* District metrics *)

NoName == "None"
name_of(feat) == feat.name

\* shapely: Point(lon, lat) can be built
point_ok(p) == p.k # "bad"

\* shapely: poly.contains(pt), for a feature with a geometry
contains(feat, p) == feat.geom /\ p.k = "ok" /\ p.v \in feat.inside

\* the features, in input order, whose polygon contains p
RECURSIVE containing_from(_, _)
containing_from(p, i) ==
    IF i > Len(district_features) THEN <<>>
    ELSE (IF contains(district_features[i], p) THEN <<i>> ELSE <<>>)
         \o containing_from(p, i + 1)

\* mutant of matched_features: a point no polygon contains is counted in the first feature
matched_features_default(p) ==
    LET all == containing_from(p, 1)
    IN  IF all # <<>> THEN <<all[1]>>
        ELSE IF district_features # <<>> THEN <<1>> ELSE <<>>

\* mutant of matched_features: the inner loop without its break
matched_features_all(p) == containing_from(p, 1)

\* the inner loop over district_shapes: count in the first containing one, break
matched_features(p) ==
    LET all == containing_from(p, 1) IN IF all = <<>> THEN <<>> ELSE <<all[1]>>

district_names == {name_of(district_features[i]) : i \in DOMAIN district_features}

zero_counters == [num_hospitals |-> 0, num_communities |-> 0, sum_hospital_weights |-> 0]

\* district_metrics[name] = {'num_hospitals': 0, ...} for every feature
init_metrics == [n \in district_names |-> zero_counters]

\* the weight the district loop reads for a hospital row
weight_read(h_idx) ==
    CASE script = "csmbs"  -> 0        \* hosp.get('weight', 0): hospitals has no such column
      [] script = "ratcha" -> h_metrics_global[h_idx].num_communities
      [] OTHER             -> weight[h_idx]

RECURSIVE count_in(_, _, _, _)
count_in(dm, feats, k, h_idx) ==
    IF k > Len(feats) THEN dm
    ELSE LET n == name_of(district_features[feats[k]])
         IN  count_in(
               IF h_idx = None
               THEN [dm EXCEPT ![n].num_communities = @ + 1]
               ELSE [dm EXCEPT ![n].num_hospitals = @ + 1,
                               ![n].sum_hospital_weights = @ + weight_read(h_idx)],
               feats, k + 1, h_idx)

\* viz11 only counts a hospital whose 'district' cell is not null
hospital_counted(feats) ==
    script # "viz11" \/ feats = <<>> \/ name_of(district_features[feats[1]]) # NoName

RECURSIVE hospital_loop(_, _)
hospital_loop(k, dm) ==
    IF k > Len(hospitals) THEN dm
    ELSE LET p == hospitals[k].pos
             feats == matched_features(p)
         IN  IF point_ok(p) /\ hospital_counted(feats)
             THEN hospital_loop(k + 1, count_in(dm, feats, 1, k))
             ELSE hospital_loop(k + 1, dm)

RECURSIVE community_loop(_, _)
community_loop(k, dm) ==
    IF k > Len(communities) THEN dm
    ELSE LET p == communities[k].pos
         IN  IF point_ok(p)
             THEN community_loop(k + 1, count_in(dm, matched_features(p), 1, None))
             ELSE community_loop(k + 1, dm)

RECURSIVE SetMax(_)
SetMax(S) == IF S = {} THEN 0
             ELSE LET x == CHOOSE x \in S : TRUE
                      m == SetMax(S \ {x})
                  IN  IF x > m THEN x ELSE m

\* max((v['sum_hospital_weights'] for v in district_metrics.values()), default=1)
max_sum_weights(dm) ==
    IF DOMAIN dm = {} THEN 1 ELSE SetMax({dm[n].sum_hospital_weights : n \in DOMAIN dm})

\* csmbs: global_max = max((f['properties'].get('sum_hospital_weights',0) for f in
\* out_features), default=1)
global_max(dm) ==
    IF district_features = <<>> THEN 1
    ELSE SetMax({dm[name_of(district_features[i])].sum_hospital_weights :
                    i \in DOMAIN district_features})

\* the denominator of choropleth_norm in the script
norm_max(dm) == IF script \in Filtered THEN global_max(dm) ELSE max_sum_weights(dm)

\* mutant of written_back: the quotient is formed without the guard on the maximum
written_back_unguarded(dm, i) ==
    LET metrics == dm[name_of(district_features[i])]
    IN  [num_hospitals |-> metrics.num_hospitals,
         num_communities |-> metrics.num_communities,
         sum_hospital_weights |-> metrics.sum_hospital_weights,
         choropleth_norm |-> <<metrics.sum_hospital_weights, norm_max(dm)>>]

\* mutant of written_back: the quotient is taken against the number of hospitals
written_back_by_count(dm, i) ==
    LET metrics == dm[name_of(district_features[i])]
    IN  [num_hospitals |-> metrics.num_hospitals,
         num_communities |-> metrics.num_communities,
         sum_hospital_weights |-> metrics.sum_hospital_weights,
         choropleth_norm |-> IF norm_max(dm) > 0
                             THEN <<metrics.sum_hospital_weights, Len(hospitals)>>
                             ELSE <<0, 1>>]

\* the properties written back to feature i; choropleth_norm as <<numerator, denominator>>
written_back(dm, i) ==
    LET metrics == dm[name_of(district_features[i])]
        mx == norm_max(dm)
    IN  [num_hospitals |-> metrics.num_hospitals,
         num_communities |-> metrics.num_communities,
         sum_hospital_weights |-> metrics.sum_hospital_weights,
         choropleth_norm |-> IF mx > 0 THEN <<metrics.sum_hospital_weights, mx>> ELSE <<0, 1>>]

---------------------------------------------------------------------------
(* Inputs *)

TARGET_DISTRICT == "A"
TARGET_HOSPITAL_NAME == "W"

\* Bangchanpattana reads three scheme columns (uhc_col, sss_col, csmbs_col);
\* `right` is the CSMBS column there
RightsRows ==
    {[uhc |-> <<"y", "e", "s">>, sss |-> <<"0">>, csmbs |-> <<"y", "e", "s">>],
     [uhc |-> <<"y", "e", "s">>, sss |-> <<"y", "e", "s">>, csmbs |-> <<"0">>],
     [uhc |-> <<"0">>, sss |-> <<"y", "e", "s">>, csmbs |-> <<"y", "e", "s">>],
     [uhc |-> <<"0">>, sss |-> <<"0">>, csmbs |-> <<"0">>]}

HospRows(sc) ==
    IF sc = "bangchan"
    THEN {[pos |-> p, right |-> r.csmbs, uhc |-> r.uhc, sss |-> r.sss, name |-> "x"] :
              p \in Coords(HospPos), r \in RightsRows}
    ELSE [pos : Coords(HospPos),
          right : CASE sc = "csmbs" -> RawVals
                    [] sc = "viz11" -> {<<"Y", "E", "S">>, <<"y", "e", "s">>}
                    [] OTHER -> {<<"y", "e", "s">>},
          uhc : {<<"0">>},
          sss : {<<"0">>},
          name : IF sc = "wkr" THEN {TARGET_HOSPITAL_NAME, "x"} ELSE {"x"}]

CommRows(sc) == [pos : Coords(CommPos), pop : IF sc = "ratcha" THEN {1, 2} ELSE {1}]

\* properties: the derived properties the script has put into the feature's dict
Feature(n, in, ed) ==
    [name |-> n, inside |-> in, edge |-> ed, geom |-> TRUE, properties |-> <<>>]
NoGeometry(n) ==
    [name |-> n, inside |-> {}, edge |-> {}, geom |-> FALSE, properties |-> <<>>]

\* the features as json.load returns them from the file
as_loaded(feats) == [i \in DOMAIN feats |-> [feats[i] EXCEPT !.properties = <<>>]]

\* two overlapping districts
LayoutOverlap == <<Feature("A", {1, 2}, {}), Feature("B", {1, 2, 3}, {})>>
\* two adjacent districts sharing the boundary point 2
LayoutAdjacent == <<Feature("A", {1}, {2}), Feature("B", {3}, {2})>>
\* two features carrying the same name
LayoutSameName == <<Feature("A", {1}, {}), Feature("A", {2, 3}, {})>>
\* a feature without the name property
LayoutNoName == <<Feature(NoName, {1, 2}, {}), Feature("B", {2, 3}, {})>>
\* two features without the name property
LayoutTwoNoName == <<Feature(NoName, {1}, {}), Feature(NoName, {2, 3}, {})>>
\* a feature without geometry; position 3 lies in no district
LayoutNoGeom == <<NoGeometry("B"), Feature("A", {1, 2}, {})>>
\* a geojson without features
LayoutEmpty == <<>>
\* one district; positions 2 and 3 lie outside every polygon
LayoutGap == <<Feature("A", {1}, {})>>

Layouts(sc) ==
    CASE sc \in {"congestion", "viz11"} ->
            {LayoutOverlap, LayoutAdjacent, LayoutSameName, LayoutNoName, LayoutNoGeom,
             LayoutEmpty, LayoutGap, LayoutTwoNoName}
      [] sc = "ratcha" -> {LayoutOverlap, LayoutGap}
      [] OTHER -> {LayoutOverlap}

\* no helper is being called
NoCall == [fn |-> "none", val |-> <<>>, done |-> FALSE, result |-> FALSE]

(* What can be missing: one of the three input files, or the coordinate    *)
(* columns of one of the two tables.                                       *)
Defects ==
    {"none", "no_hospitals_csv", "no_communities_csv", "no_districts",
     "no_hospital_coords", "no_community_coords"}

\* the coordinate cell of a row of a table that has no coordinate columns
Absent == [k |-> "absent", v |-> 0]
without_coords(rows) == {[r EXCEPT !.pos = Absent] : r \in rows}

\* a table that was never read is the empty table
HospTables(sc, df) ==
    CASE df = "no_hospitals_csv" -> {<<>>}
      [] df = "no_hospital_coords" -> SeqsUpTo(without_coords(HospRows(sc)), MaxHosp) \ {<<>>}
      [] OTHER -> SeqsUpTo(HospRows(sc), MaxHosp)

MaxRows(sc) == IF sc = "bangchan" THEN 1 ELSE MaxComm

CommTables(sc, df) ==
    CASE df = "no_communities_csv" -> {<<>>}
      [] df = "no_community_coords" ->
            SeqsUpTo(without_coords(CommRows(sc)), MaxRows(sc)) \ {<<>>}
      [] OTHER -> SeqsUpTo(CommRows(sc), MaxRows(sc))

Init ==
    /\ script \in Scripts
    /\ defect \in Defects
    /\ hospitals \in HospTables(script, defect)
    /\ communities \in CommTables(script, defect)
    /\ district_features \in IF defect = "no_districts" THEN {<<>>} ELSE Layouts(script)
    /\ pc = "load"
    /\ comm_assigned = <<>>
    /\ c_i = 0
    /\ nearest = <<>>
    /\ w_i = 0
    /\ weight = <<>>
    /\ h_metrics_global = <<>>
    /\ district_metrics = <<>>
    /\ out_features = <<>>
    /\ saved = FALSE
    /\ right_lines = <<>>
    /\ run = 1
    /\ first_run = <<>>
    /\ h_in_set = {}
    /\ comm_to_show = <<>>
    /\ linked_outside_hospitals_idx = {}
    /\ linked_comms = <<>>
    /\ conn_layer = <<>>
    /\ call = NoCall

---------------------------------------------------------------------------
(* Stages *)

some_ok(tbl) == \E k \in DOMAIN tbl : tbl[k].pos.k = "ok"
some_bad(tbl) == \E k \in DOMAIN tbl : tbl[k].pos.k = "bad"
some_nan(tbl) == \E k \in DOMAIN tbl : tbl[k].pos.k = "nan"

(* What the script does before its assignment loop and whether it raises:  *)
(* viz11 centres the map on communities[lat_col].mean() and draws a marker *)
(* for every hospital row; bangchan looks the target community up.         *)
\* mutant of input_missing: the files and columns are not looked at
input_missing_ignored == FALSE

(* The checks at the head of the script: read_csv / open / Path.exists on  *)
(* the input files, and the test for the coordinate columns.  The          *)
(* districts file is optional in bangchan and opened later in viz11.       *)
input_missing ==
    \/ defect \in {"no_hospitals_csv", "no_communities_csv",
                   "no_hospital_coords", "no_community_coords"}
    \/ defect = "no_districts" /\ script \in {"congestion", "csmbs", "ratcha", "wkr"}

load_raises ==
    CASE input_missing -> TRUE
      [] script = "viz11" ->
            \/ some_bad(communities) \/ ~some_ok(communities)
            \/ \E k \in DOMAIN hospitals : hospitals[k].pos.k # "ok"
      [] script = "bangchan" ->
            communities = <<>> \/ ~float_ok(communities[1].pos)
      [] OTHER -> FALSE

Load ==
    /\ pc = "load"
    /\ pc' = IF load_raises THEN "aborted" ELSE "assign"
    /\ UNCHANGED <<shown_vars, defect, call, run, first_run, right_lines,
                   script, hospitals, communities, district_features, comm_assigned, c_i,
                   nearest, w_i, weight, h_metrics_global, district_metrics,
                   out_features, saved>>

\* mutant of AssignStep: the loop takes the same row again and again
AssignStepStuck ==
    /\ pc = "assign"
    /\ script # "bangchan"
    /\ c_i < Len(communities)
    /\ UNCHANGED vars

AssignStep ==
    /\ pc = "assign"
    /\ script # "bangchan"
    /\ c_i < Len(communities)
    /\ LET r == assign_one(c_i + 1)
       IN  /\ comm_assigned' = comm_assigned \o r.entries
           /\ pc' = IF r.raised THEN "aborted" ELSE "assign"
    /\ c_i' = c_i + 1
    /\ UNCHANGED <<shown_vars, defect, call, run, first_run, right_lines,
                   script, hospitals, communities, district_features, nearest, w_i,
                   weight, h_metrics_global, district_metrics, out_features, saved>>

\* viz11 draws the baseline lines next: hospitals.loc[h_idx] for every entry
baseline_raises == script = "viz11" /\ \E k \in DOMAIN comm_assigned : comm_assigned[k].h = None

EndAssign ==
    /\ pc = "assign"
    /\ script # "bangchan"
    /\ c_i = Len(communities)
    /\ IF baseline_raises
       THEN /\ pc' = "aborted"
            /\ UNCHANGED <<weight, h_metrics_global>>
       ELSE /\ pc' = IF script = "viz11" THEN "rights" ELSE "weights"
            /\ weight' = IF script \in {"ratcha", "viz11"} THEN weight ELSE zero_weight
            /\ h_metrics_global' = IF script = "ratcha" THEN zero_metrics ELSE h_metrics_global
    /\ UNCHANGED <<shown_vars, defect, call, run, first_run, right_lines,
                   script, hospitals, communities, district_features, comm_assigned, c_i,
                   nearest, w_i, district_metrics, out_features, saved>>

\* viz11: the per-right connection layers, then hospitals['weight'] = 0
RightLayers ==
    /\ pc = "rights"
    /\ right_lines' = connections(1)
    /\ weight' = zero_weight
    /\ pc' = "weights"
    /\ UNCHANGED <<shown_vars, defect, call, run, first_run,
                   script, hospitals, communities, district_features, comm_assigned, c_i,
                   nearest, w_i, h_metrics_global, district_metrics, out_features, saved>>

FindNearest ==
    /\ pc = "assign"
    /\ script = "bangchan"
    /\ nearest' = [any |-> find_nearest("None"), uhc |-> find_nearest("pred_uhc"),
                   sss |-> find_nearest("pred_sss"), right |-> find_nearest("pred_csmbs")]
    /\ pc' = "render"
    /\ UNCHANGED <<shown_vars, defect, call, run, first_run, right_lines,
                   script, hospitals, communities, district_features, comm_assigned, c_i,
                   w_i, weight, h_metrics_global, district_metrics, out_features, saved>>

WeightStep ==
    /\ pc = "weights"
    /\ script # "wkr"
    /\ w_i < Len(comm_assigned)
    /\ LET e == comm_assigned[w_i + 1]
       IN  /\ weight' = IF script = "ratcha" THEN weight ELSE add_weight(weight, e)
           /\ h_metrics_global' =
                 IF script = "ratcha" THEN add_metrics(h_metrics_global, e)
                 ELSE h_metrics_global
    /\ w_i' = w_i + 1
    /\ UNCHANGED <<shown_vars, defect, call, run, first_run, right_lines,
                   script, hospitals, communities, district_features, pc, comm_assigned, c_i,
                   nearest, district_metrics, out_features, saved>>

WeightCounter ==
    /\ pc = "weights"
    /\ script = "wkr"
    /\ weight' = Counter(comm_assigned, 1, zero_weight)
    /\ w_i' = Len(comm_assigned)
    /\ pc' = "target"
    /\ UNCHANGED <<shown_vars, defect, call, run, first_run, right_lines,
                   script, hospitals, communities, district_features, comm_assigned, c_i,
                   nearest, h_metrics_global, district_metrics, out_features, saved>>

\* mutant of EndWeights: the readers start before the weight loop has consumed every entry
EndWeightsEarly ==
    /\ pc = "weights"
    /\ script # "wkr"
    /\ pc' = IF script = "ratcha" THEN "target" ELSE "districts"
    /\ UNCHANGED <<shown_vars, defect, call, run, first_run, right_lines,
                   script, hospitals, communities, district_features, comm_assigned, c_i,
                   nearest, w_i, weight, h_metrics_global, district_metrics,
                   out_features, saved>>

\* the weight loop is exhausted: the script goes on to its readers
EndWeights ==
    /\ pc = "weights"
    /\ script # "wkr"
    /\ w_i = Len(comm_assigned)
    /\ pc' = IF script = "ratcha" THEN "target" ELSE "districts"
    /\ UNCHANGED <<shown_vars, defect, call, run, first_run, right_lines,
                   script, hospitals, communities, district_features, comm_assigned, c_i,
                   nearest, w_i, weight, h_metrics_global, district_metrics,
                   out_features, saved>>

\* ratcha: the first feature named TARGET_DISTRICT, 0 when there is none
RECURSIVE target_from(_)
target_from(i) ==
    IF i > Len(district_features) THEN 0
    ELSE IF name_of(district_features[i]) = TARGET_DISTRICT THEN i
    ELSE target_from(i + 1)
target_feat == target_from(1)

\* wkr: the hospital rows whose name is the target name
matches == {k \in DOMAIN hospitals : hospitals[k].name = TARGET_HOSPITAL_NAME}

target_raises ==
    IF script = "ratcha"
    THEN target_feat = 0 \/ ~district_features[target_feat].geom
    ELSE matches = {}

\* ratcha: target_shape.contains(pt) after ShapelyPoint(float(lon), float(lat))
in_target(p) == float_ok(p) /\ contains(district_features[target_feat], p)

\* ratcha: hospitals_in / h_in_set
hospitals_in == {h \in DOMAIN hospitals : in_target(hospitals[h].pos)}

\* mutant of shown_from: only the communities inside the district are shown
shown_inside_only(k, hset) ==
    LET inside == {j \in k..Len(comm_assigned) : in_target(communities[comm_assigned[j].c].pos)}
    IN  [j \in 1..Cardinality(inside) |->
            comm_assigned[CHOOSE i \in inside : Cardinality({x \in inside : x <= i}) = j]]

\* ratcha: the loop that fills comm_to_show, from entry k of the assignment list on
RECURSIVE shown_from(_, _)
shown_from(k, hset) ==
    IF k > Len(comm_assigned) THEN <<>>
    ELSE LET e == comm_assigned[k]
             cpos == communities[e.c].pos
             inside == in_target(cpos)
             assigned_to_ratcha == IF e.h # None THEN e.h \in hset ELSE FALSE
         IN  (IF float_ok(cpos) /\ (inside \/ assigned_to_ratcha) THEN <<e>> ELSE <<>>)
             \o shown_from(k + 1, hset)

\* mutant of linked_outside: no outside hospital is added
linked_outside_none(shown, hset) == {}

\* ratcha: the loop that fills linked_outside_hospitals_idx
linked_outside(shown, hset) ==
    {shown[k].h : k \in {j \in DOMAIN shown :
                            /\ shown[j].h # None
                            /\ shown[j].h \notin hset
                            /\ in_target(communities[shown[j].c].pos)}}

\* wkr: target_idx_set
target_idx_set == matches

\* mutant of linked_to: every community that has a hospital is linked
linked_to_any(k) ==
    LET some == {j \in k..Len(comm_assigned) : comm_assigned[j].h # None}
    IN  [j \in 1..Cardinality(some) |->
            comm_assigned[CHOOSE i \in some : Cardinality({x \in some : x <= i}) = j]]

\* wkr: the loop that fills linked_comms, from entry k of the assignment list on
RECURSIVE linked_to(_)
linked_to(k) ==
    IF k > Len(comm_assigned) THEN <<>>
    ELSE (IF comm_assigned[k].h \in target_idx_set THEN <<comm_assigned[k]>> ELSE <<>>)
         \o linked_to(k + 1)

Target ==
    /\ pc = "target"
    /\ pc' = IF target_raises THEN "aborted"
             ELSE IF script = "ratcha" THEN "districts" ELSE "render"
    /\ IF target_raises
       THEN UNCHANGED <<h_in_set, comm_to_show, linked_outside_hospitals_idx, linked_comms>>
       ELSE IF script = "ratcha"
       THEN /\ h_in_set' = hospitals_in
            /\ comm_to_show' = shown_from(1, hospitals_in)
            /\ linked_outside_hospitals_idx' =
                  linked_outside(shown_from(1, hospitals_in), hospitals_in)
            /\ UNCHANGED linked_comms
       ELSE /\ linked_comms' = linked_to(1)
            /\ UNCHANGED <<h_in_set, comm_to_show, linked_outside_hospitals_idx>>
    /\ UNCHANGED <<conn_layer, defect, call, run, first_run, right_lines,
                   script, hospitals, communities, district_features, comm_assigned, c_i,
                   nearest, w_i, weight, h_metrics_global, district_metrics,
                   out_features, saved>>

\* viz11 builds shape(feat['geometry']) for every feature, unguarded
shapes_raise == script = "viz11" /\ \E i \in DOMAIN district_features : ~district_features[i].geom

\* viz11 opens GEOJSON_PATH only here
geojson_missing == script = "viz11" /\ defect = "no_districts"

DistrictHospitals ==
    /\ pc = "districts"
    /\ IF geojson_missing \/ shapes_raise
       THEN pc' = "aborted" /\ UNCHANGED district_metrics
       ELSE pc' = "districts2" /\ district_metrics' = hospital_loop(1, init_metrics)
    /\ UNCHANGED <<shown_vars, defect, call, run, first_run, right_lines,
                   script, hospitals, communities, district_features, comm_assigned, c_i,
                   nearest, w_i, weight, h_metrics_global, out_features, saved>>

DistrictCommunities ==
    /\ pc = "districts2"
    /\ district_metrics' = community_loop(1, district_metrics)
    /\ pc' = "publish"
    /\ UNCHANGED <<shown_vars, defect, call, run, first_run, right_lines,
                   script, hospitals, communities, district_features, comm_assigned, c_i,
                   nearest, w_i, weight, h_metrics_global, out_features, saved>>

\* the features that get the properties: ratcha only emits the target feature
published == IF script = "ratcha" THEN <<target_feat>> ELSE index(district_features)

\* feat['properties'][...] = ...: the dict of the loaded feature is written in place
\* (csmbs, ratcha: props = feat.get('properties', {}) or {} is that same dict)
WriteBack ==
    /\ pc = "publish"
    /\ out_features' = [k \in DOMAIN published |-> written_back(district_metrics, published[k])]
    /\ district_features' =
          [i \in DOMAIN district_features |->
              IF i \in Range(published)
              THEN [district_features[i] EXCEPT
                       !.properties = written_back(district_metrics, i)]
              ELSE district_features[i]]
    /\ pc' = "render"
    /\ UNCHANGED <<shown_vars, defect, call, run, first_run, right_lines,
                   script, hospitals, communities, comm_assigned, c_i,
                   nearest, w_i, weight, h_metrics_global, district_metrics, saved>>

(* Building the map: what raises between the aggregation and m.save().     *)
render_raises ==
    CASE script = "congestion" ->
            \/ some_bad(communities) \/ ~some_ok(communities) \/ some_nan(hospitals)
      [] script = "csmbs" ->
            \/ some_bad(communities) \/ ~some_ok(communities) \/ some_nan(communities)
            \/ \E k \in Range(csmbs_hospitals) : hospitals[k].pos.k = "nan"
      [] script = "wkr" ->
            LET first_hosp == CHOOSE k \in matches : \A j \in matches : k <= j
            IN  hospitals[first_hosp].pos.k # "ok"
      [] script = "bangchan" -> communities[1].pos.k # "ok"
      [] OTHER -> FALSE

\* ratcha: the lines of conn_layer, entry by entry of comm_to_show from entry k on
RECURSIVE conn_lines(_)
conn_lines(k) ==
    IF k > Len(comm_to_show) THEN <<>>
    ELSE LET e == comm_to_show[k]
         IN  (IF e.h # None /\ float_ok(communities[e.c].pos) /\ float_ok(hospitals[e.h].pos)
              THEN <<[c |-> e.c, h |-> e.h]>> ELSE <<>>)
             \o conn_lines(k + 1)

Render ==
    /\ pc = "render"
    /\ pc' = IF render_raises THEN "aborted" ELSE "save"
    /\ conn_layer' = IF script = "ratcha" /\ ~render_raises THEN conn_lines(1) ELSE conn_layer
    /\ UNCHANGED <<h_in_set, comm_to_show, linked_outside_hospitals_idx, linked_comms,
                   defect, call, run, first_run, right_lines,
                   script, hospitals, communities, district_features, comm_assigned, c_i,
                   nearest, w_i, weight, h_metrics_global, district_metrics,
                   out_features, saved>>

Save ==
    /\ pc = "save"
    /\ saved' = TRUE
    /\ pc' = "done"
    /\ UNCHANGED <<shown_vars, defect, call, run, first_run, right_lines,
                   script, hospitals, communities, district_features, comm_assigned, c_i,
                   nearest, w_i, weight, h_metrics_global, district_metrics, out_features>>

\* what a run has computed: assignments, weights, region aggregates and scores
computed ==
    [comm_assigned |-> comm_assigned, nearest |-> nearest, right_lines |-> right_lines,
     weight |-> weight, h_metrics_global |-> h_metrics_global,
     district_metrics |-> district_metrics, out_features |-> out_features,
     h_in_set |-> h_in_set, comm_to_show |-> comm_to_show,
     linked_outside_hospitals_idx |-> linked_outside_hospitals_idx,
     linked_comms |-> linked_comms, conn_layer |-> conn_layer]

\* the script is started again on the same input files
Rerun ==
    /\ pc = "done"
    /\ run = 1
    /\ first_run' = computed
    /\ run' = 2
    /\ pc' = "load"
    /\ comm_assigned' = <<>>
    /\ c_i' = 0
    /\ nearest' = <<>>
    /\ w_i' = 0
    /\ weight' = <<>>
    /\ h_metrics_global' = <<>>
    /\ district_metrics' = <<>>
    /\ out_features' = <<>>
    /\ right_lines' = <<>>
    /\ saved' = FALSE
    /\ district_features' = as_loaded(district_features)
    /\ h_in_set' = {}
    /\ comm_to_show' = <<>>
    /\ linked_outside_hospitals_idx' = {}
    /\ linked_comms' = <<>>
    /\ conn_layer' = <<>>
    /\ UNCHANGED <<defect, call, script, hospitals, communities>>

Next ==
    \/ Load
    \/ AssignStep
    \/ EndAssign
    \/ RightLayers
    \/ FindNearest
    \/ WeightStep
    \/ WeightCounter
    \/ EndWeights
    \/ Target
    \/ DistrictHospitals
    \/ DistrictCommunities
    \/ WriteBack
    \/ Render
    \/ Save
    \/ Rerun

Spec == Init /\ [][Next]_vars

(* The statements of a started script: the interpreter executes the next   *)
(* statement as long as there is one.  Starting the script again is up to  *)
(* the user.                                                               *)
Step ==
    \/ Load
    \/ AssignStep
    \/ EndAssign
    \/ RightLayers
    \/ FindNearest
    \/ WeightStep
    \/ WeightCounter
    \/ EndWeights
    \/ Target
    \/ DistrictHospitals
    \/ DistrictCommunities
    \/ WriteBack
    \/ Render
    \/ Save

(* The runs followed to their end: the inputs of Init whose parseable      *)
(* coordinates are all at position 1, with one scheme cell per script, on  *)
(* the overlapping layout or without features.                            *)
InitFair ==
    /\ Init
    /\ \A k \in DOMAIN hospitals :
          /\ hospitals[k].pos.v \in {0, 1}
          /\ hospitals[k].right =
                IF script = "viz11" THEN <<"Y", "E", "S">> ELSE <<"y", "e", "s">>
    /\ \A k \in DOMAIN communities : communities[k].pos.v \in {0, 1} /\ communities[k].pop = 1
    /\ as_loaded(district_features) \in {LayoutOverlap, LayoutEmpty}

SpecFair == InitFair /\ [][Next]_vars /\ WF_vars(Step)

---------------------------------------------------------------------------
(* Properties *)

AfterAssign == {"rights", "weights", "target", "districts", "districts2", "publish", "render", "save", "done"}

\* the assignment loop of the script has run to its end
LoopFinished == script # "bangchan" /\ pc \in AfterAssign

\* the hospitals the loop can pick: rows of the iterated table with usable coordinates
Candidates == {h \in Range(assign_rows) : hospitals[h].pos.k = "ok"}

DistTo(k, h) == geodesic(communities[k].pos, hospitals[h].pos)

\* brute force: the candidates at minimum distance from community k
Closest(k, cands) == {h \in cands : \A g \in cands : DistTo(k, h) <= DistTo(k, g)}

Least(S) == CHOOSE x \in S : \A y \in S : x <= y

\* bangchan: the hospitals find_nearest may return, without and with the predicate
CandidatesAny == {h \in DOMAIN hospitals : hospitals[h].pos.k = "ok"}
CandidatesRight == {h \in CandidatesAny : truthy(hospitals[h].right)}
FindNearestDone == script = "bangchan" /\ pc \in {"render", "save", "done"}

(* C1 -- Assignment totality: once the nearest-assignment loop has         *)
(* finished, comm_assigned holds exactly one entry per community row, in   *)
(* input order (entry k is for row k), also for rows whose coordinates do  *)
(* not parse and rows for which no hospital was found.                     *)
C1_AssignmentTotality ==
    LoopFinished =>
        /\ Len(comm_assigned) = Len(communities)
        /\ \A k \in DOMAIN comm_assigned : comm_assigned[k].c = k

\* the loop finished on a table with an unparseable row and a row without any hospital
C1_Witness ==
    /\ LoopFinished
    /\ script \in {"congestion", "csmbs"}
    /\ \E k \in DOMAIN communities :
          communities[k].pos.k = "bad" /\ comm_assigned[k].h = None
    /\ \E k \in DOMAIN communities :
          communities[k].pos.k = "ok" /\ comm_assigned[k].h = None

(* C2 -- Assignment correctness: for every community with parseable        *)
(* coordinates, the recorded hospital is a candidate at minimum distance   *)
(* (brute force over all candidates with parseable coordinates) and the    *)
(* recorded distance is that minimum; likewise for find_nearest.           *)
C2_AssignmentCorrect ==
    /\ LoopFinished =>
          \A k \in DOMAIN communities :
             (communities[k].pos.k = "ok" /\ Candidates # {}) =>
                 /\ comm_assigned[k].h \in Closest(k, Candidates)
                 /\ comm_assigned[k].d = DistTo(k, comm_assigned[k].h)
    /\ (FindNearestDone /\ communities[1].pos.k = "ok") =>
          /\ CandidatesAny # {} =>
                /\ nearest.any.h \in Closest(1, CandidatesAny)
                /\ nearest.any.d = DistTo(1, nearest.any.h)
          /\ CandidatesRight # {} =>
                /\ nearest.right.h \in Closest(1, CandidatesRight)
                /\ nearest.right.d = DistTo(1, nearest.right.h)

\* a community whose nearest hospital is not the first row and is strictly nearer
C2_Witness ==
    /\ LoopFinished
    /\ \E k \in DOMAIN communities :
          /\ communities[k].pos.k = "ok"
          /\ comm_assigned[k].h = 2
          /\ 1 \in Candidates
          /\ DistTo(k, 2) < DistTo(k, 1)

(* C3 -- Tie-break: when several candidates are at the same minimum        *)
(* distance, the scan records the one that comes first in iteration order. *)
C3_TieBreakFirst ==
    /\ LoopFinished =>
          \A k \in DOMAIN communities :
             (communities[k].pos.k = "ok" /\ Candidates # {}) =>
                 comm_assigned[k].h = Least(Closest(k, Candidates))
    /\ (FindNearestDone /\ communities[1].pos.k = "ok") =>
          /\ CandidatesAny # {} => nearest.any.h = Least(Closest(1, CandidatesAny))
          /\ CandidatesRight # {} => nearest.right.h = Least(Closest(1, CandidatesRight))

\* two hospitals at different places, equally far from a community, the first recorded
C3_Witness ==
    /\ LoopFinished
    /\ \E k \in DOMAIN communities :
          /\ communities[k].pos.k = "ok"
          /\ Cardinality(Closest(k, Candidates)) = 2
          /\ \E g, h \in Closest(k, Candidates) : hospitals[g].pos # hospitals[h].pos
          /\ comm_assigned[k].h = 1

\* no hospital row satisfies the eligibility predicate of the run
NoneEligible ==
    \/ script \in Filtered /\ csmbs_hospitals = <<>>
    \/ script = "bangchan" /\ \A h \in DOMAIN hospitals : ~truthy(hospitals[h].right)

\* with no eligible hospital every assignment is (None, None) and no weight is added
C4_AllNone ==
    NoneEligible =>
        /\ LoopFinished =>
              \A k \in DOMAIN comm_assigned :
                 comm_assigned[k].h = None /\ comm_assigned[k].d = None
        /\ FindNearestDone => nearest.right = [h |-> None, d |-> None]
        /\ \A h \in DOMAIN weight : weight[h] = 0

(* C4 -- No eligible hospital: every community's assignment is             *)
(* (None, None), no hospital weight is incremented, and the run goes on to *)
(* completion without raising.  Stated for the filtered scripts on tables  *)
(* with at least one community row and no empty coordinate cell.           *)
C4_NoEligibleCompletes ==
    (/\ script \in Filtered
     /\ defect = "none"
     /\ csmbs_hospitals = <<>>
     /\ communities # <<>>
     /\ ~some_nan(communities)) => (C4_AllNone /\ pc # "aborted")

AfterWeights == {"target", "districts", "districts2", "publish", "render", "save", "done"}

\* the weight loop of the script has run to its end
WeightsDone == script \notin {"bangchan"} /\ pc \in AfterWeights

\* the weight a reader of the filtered table finds for hospital row h: row.get('weight', 0)
FilteredWeight(h) == IF h \in DOMAIN weight THEN weight[h] ELSE 0

Eligible == {h \in DOMAIN hospitals : truthy(hospitals[h].right)}

(* C5 -- A community is never assigned to an ineligible hospital: in the   *)
(* eligibility-filtered assignments the recorded hospital satisfies the    *)
(* predicate, also when an ineligible hospital is strictly nearer; so with *)
(* one eligible hospital (of usable coordinates) and parseable communities *)
(* the eligible hospital's weight is the number of communities and every   *)
(* ineligible hospital's weight is 0.                                      *)
C5_NeverIneligible ==
    /\ script \in Filtered =>
          /\ \A k \in DOMAIN comm_assigned :
                comm_assigned[k].h # None => comm_assigned[k].h \in Eligible
          /\ WeightsDone =>
                /\ \A h \in DOMAIN hospitals \ Eligible : FilteredWeight(h) = 0
                /\ \A h \in Eligible :
                      (/\ Eligible = {h}
                       /\ hospitals[h].pos.k = "ok"
                       /\ \A k \in DOMAIN communities : communities[k].pos.k = "ok")
                      => FilteredWeight(h) = Len(communities)
    /\ FindNearestDone => (nearest.right.h # None => nearest.right.h \in Eligible)

\* every community is assigned to the eligible hospital although an ineligible one is nearer
C5_Witness ==
    /\ script \in Filtered
    /\ WeightsDone
    /\ Len(communities) = MaxComm
    /\ \E h \in Eligible, g \in DOMAIN hospitals \ Eligible :
          /\ Eligible = {h}
          /\ hospitals[g].pos.k = "ok"
          /\ \A k \in DOMAIN communities :
                /\ communities[k].pos.k = "ok"
                /\ comm_assigned[k].h = h
                /\ DistTo(k, g) < DistTo(k, h)
          /\ FilteredWeight(h) = Len(communities)
          /\ FilteredWeight(g) = 0

\* the sum of the function f over the finite set S
RECURSIVE SumOver(_, _)
SumOver(S, f) ==
    IF S = {} THEN 0
    ELSE LET x == CHOOSE y \in S : TRUE IN f[x] + SumOver(S \ {x}, f)

\* the communities whose assignment entry names hospital h
AssignedTo(h) == {k \in DOMAIN comm_assigned : comm_assigned[k].h = h}

Population == [k \in DOMAIN comm_assigned |-> communities[comm_assigned[k].c].pop]

(* C6 -- Per-hospital metrics: after the aggregation loop, the weight      *)
(* (num_communities) of every hospital is the number of communities whose  *)
(* assignment entry names it, and sum_population is the total population   *)
(* of exactly those communities.                                           *)
C6_HospitalMetrics ==
    WeightsDone =>
        /\ \A h \in DOMAIN weight : weight[h] = Cardinality(AssignedTo(h))
        /\ \A h \in DOMAIN h_metrics_global :
              /\ h_metrics_global[h].num_communities = Cardinality(AssignedTo(h))
              /\ h_metrics_global[h].sum_population = SumOver(AssignedTo(h), Population)
        /\ script = "ratcha" => DOMAIN h_metrics_global = DOMAIN hospitals
        /\ script \in {"congestion", "wkr", "viz11"} => DOMAIN weight = DOMAIN hospitals
        /\ script \in Filtered => DOMAIN weight = Eligible

\* a hospital serving two communities of different population, another serving none
C6_Witness ==
    /\ WeightsDone
    /\ script = "ratcha"
    /\ \E h, g \in DOMAIN h_metrics_global :
          /\ h_metrics_global[h].num_communities = 2
          /\ h_metrics_global[h].sum_population = 3
          /\ h_metrics_global[g].num_communities = 0

TotalWeight ==
    IF script = "ratcha"
    THEN SumOver(DOMAIN h_metrics_global,
                 [h \in DOMAIN h_metrics_global |-> h_metrics_global[h].num_communities])
    ELSE SumOver(DOMAIN weight, weight)

(* C7 -- Weight conservation: after the weight loop the sum of the weights *)
(* of all hospitals is the number of communities whose assignment entry    *)
(* has a hospital; none is lost, none counted twice.                       *)
C7_WeightConservation ==
    WeightsDone =>
        TotalWeight = Cardinality({k \in DOMAIN comm_assigned : comm_assigned[k].h # None})

\* weights summed over a table with an assigned and an unassigned community row
C7_Witness ==
    /\ WeightsDone
    /\ script \in {"congestion", "wkr"}
    /\ \E h \in DOMAIN weight : weight[h] >= 1
    /\ \E k \in DOMAIN comm_assigned : comm_assigned[k].h = None
    /\ \E k \in DOMAIN comm_assigned : comm_assigned[k].h # None

DistrictScripts == {"congestion", "csmbs", "ratcha", "viz11"}

\* both district loops of the script have run to their end
DistrictsDone == script \in DistrictScripts /\ pc \in {"publish", "render", "save", "done"}

\* the properties have been written back to the emitted features
Emitted == script \in DistrictScripts /\ pc \in {"render", "save", "done"}

\* brute force: the first feature in input order whose polygon contains p, 0 when none does
FirstContaining(p) ==
    LET C == {i \in DOMAIN district_features : contains(district_features[i], p)}
    IN  IF C = {} THEN 0 ELSE Least(C)

HospitalsIn(i) == {h \in DOMAIN hospitals : FirstContaining(hospitals[h].pos) = i}
CommunitiesIn(i) == {k \in DOMAIN communities : FirstContaining(communities[k].pos) = i}

FeaturesNamed(n) == {i \in DOMAIN district_features : name_of(district_features[i]) = n}

(* C8 -- Region membership is first-match: a hospital or a community is    *)
(* counted in at most one region, the first in input order whose polygon   *)
(* contains its point, also where polygons overlap; so the counter of a    *)
(* region never exceeds the number of rows whose first containing polygon  *)
(* carries its name, and the counters summed over the regions never exceed *)
(* the number of hospitals (communities).                                  *)
C8_FirstMatch ==
    DistrictsDone =>
        /\ \A n \in DOMAIN district_metrics :
              /\ district_metrics[n].num_hospitals
                    <= Cardinality(UNION {HospitalsIn(i) : i \in FeaturesNamed(n)})
              /\ district_metrics[n].num_communities
                    <= Cardinality(UNION {CommunitiesIn(i) : i \in FeaturesNamed(n)})
        /\ SumOver(DOMAIN district_metrics,
                   [n \in DOMAIN district_metrics |-> district_metrics[n].num_hospitals])
              <= Len(hospitals)
        /\ SumOver(DOMAIN district_metrics,
                   [n \in DOMAIN district_metrics |-> district_metrics[n].num_communities])
              <= Len(communities)

\* a hospital and a community where two polygons overlap, counted in the first one only
C8_Witness ==
    /\ DistrictsDone
    /\ script \in {"congestion", "viz11"}
    /\ as_loaded(district_features) = LayoutOverlap
    /\ \E h \in DOMAIN hospitals : hospitals[h].pos = [k |-> "ok", v |-> 1]
    /\ \E k \in DOMAIN communities : communities[k].pos = [k |-> "ok", v |-> 2]
    /\ district_metrics["A"].num_hospitals >= 1
    /\ district_metrics["A"].num_communities >= 1
    /\ district_metrics["B"].num_communities = 0

NamesDistinct ==
    \A i, j \in DOMAIN district_features :
        name_of(district_features[i]) = name_of(district_features[j]) => i = j

\* the weight the script computed for hospital row h
ComputedWeight ==
    [h \in DOMAIN hospitals |->
        IF script = "ratcha" THEN h_metrics_global[h].num_communities ELSE FilteredWeight(h)]

\* the aggregates of feature i counted from the points themselves
Aggregates(i) ==
    [num_hospitals |-> Cardinality(HospitalsIn(i)),
     num_communities |-> Cardinality(CommunitiesIn(i)),
     sum_hospital_weights |-> SumOver(HospitalsIn(i), ComputedWeight)]

AggregatesEmitted ==
    \A k \in DOMAIN out_features :
        LET want == Aggregates(published[k])
        IN  /\ out_features[k].num_hospitals = want.num_hospitals
            /\ out_features[k].num_communities = want.num_communities
            /\ out_features[k].sum_hospital_weights = want.sum_hospital_weights

(* C9 -- Region aggregates: when the region names are pairwise distinct,   *)
(* the num_hospitals and num_communities emitted for a region are the      *)
(* numbers of hospitals and communities whose first containing polygon is  *)
(* that region, and its sum_hospital_weights is the sum of the computed    *)
(* weight of exactly those hospitals (unfiltered scripts).                 *)
C9_RegionAggregates ==
    (Emitted /\ script \notin Filtered /\ NamesDistinct) => AggregatesEmitted

\* the same statement without the script whose hospital loop drops null district cells
C9_ExceptNullDistrict ==
    (Emitted /\ script \notin Filtered /\ script # "viz11" /\ NamesDistinct)
        => AggregatesEmitted

(* C10 -- The filtered scripts' report is internally consistent: each      *)
(* district's sum_hospital_weights is the sum, over the hospitals          *)
(* contained in that district, of the weight computed from the filtered    *)
(* assignment of the same run.                                             *)
C10_FilteredConsistent ==
    (DistrictsDone /\ script \in Filtered) =>
        \A n \in DOMAIN district_metrics :
            district_metrics[n].sum_hospital_weights
                = SumOver(UNION {HospitalsIn(i) : i \in FeaturesNamed(n)}, ComputedWeight)

\* brute force: the largest sum_hospital_weights over all regions, 0 when there is none
MaxOverRegions ==
    LET sums == {district_metrics[n].sum_hospital_weights : n \in DOMAIN district_metrics}
    IN  IF sums = {} THEN 0 ELSE CHOOSE m \in sums : \A x \in sums : x <= m

C11_WitnessAllZero ==
    /\ Emitted
    /\ out_features # <<>>
    /\ MaxOverRegions = 0

\* the write-back ran on a geojson without features
C11_WitnessNoRegions == Emitted /\ district_features = <<>> /\ hospitals # <<>>

---------------------------------------------------------------------------
(* Calls of the pure helpers: one call of one helper on one argument *)

\* the cell values of the truthy table of the specification
TableInputs ==
    {<<"1">>, <<"y", "e", "s">>, <<"T", "R", "U", "E">>, <<" ", "y", " ">>, <<"0">>,
     <<"n", "o">>, <<>>, Missing, <<"2", ".", "5">>, <<"-", "1">>}

\* further cell values: every text of up to MaxLen of these characters, and the Thai words
TruthyChars == {"1", "0", "-", ".", "y", "Y", " ", "n"}
TruthyInputs ==
    TableInputs \cup SeqsUpTo(TruthyChars, MaxLen)
        \cup {<<"th:rap">>, <<"th:chai">>, <<"Y", "e", "s">>, <<"Y", "E", "S">>,
              <<" ", "O", "N">>, <<"1", ".", "0", " ">>, <<"+", "1">>, <<"-", "0", ".", "5">>}

TruthyCopies == {"truthy", "truthy_return"}

\* the cells of a population or bed-count column (texts without blanks)
CountInputs ==
    {v \in TruthyInputs : v = Missing \/ \A k \in DOMAIN v : v[k] # " "}
        \cup {<<"1", "2">>, <<"-", "5">>, <<"2", ".", "7">>, <<"-", "2", ".", "7">>,
              <<"a", "b", "c">>}

InitCalls ==
    /\ call \in [fn : TruthyCopies, val : TruthyInputs, done : {FALSE}, result : {FALSE}]
                \cup [fn : {"coerce"}, val : CountInputs, done : {FALSE}, result : {FALSE}]
    /\ defect = "none"
    /\ script = "none"
    /\ hospitals = <<>>
    /\ communities = <<>>
    /\ district_features = <<>>
    /\ pc = "idle"
    /\ comm_assigned = <<>>
    /\ c_i = 0
    /\ nearest = <<>>
    /\ w_i = 0
    /\ weight = <<>>
    /\ h_metrics_global = <<>>
    /\ district_metrics = <<>>
    /\ out_features = <<>>
    /\ saved = FALSE
    /\ right_lines = <<>>
    /\ run = 1
    /\ first_run = <<>>
    /\ h_in_set = {}
    /\ comm_to_show = <<>>
    /\ linked_outside_hospitals_idx = {}
    /\ linked_comms = <<>>
    /\ conn_layer = <<>>

\* everything but the call
run_vars == <<script, hospitals, communities, district_features, pc, comm_assigned, c_i,
              nearest, w_i, weight, h_metrics_global, district_metrics, out_features, saved,
              right_lines, run, first_run, defect,
              h_in_set, comm_to_show, linked_outside_hospitals_idx, linked_comms, conn_layer>>

CallTruthy ==
    /\ call.fn = "truthy"
    /\ ~call.done
    /\ call' = [call EXCEPT !.done = TRUE, !.result = truthy(call.val)]
    /\ UNCHANGED run_vars

CallTruthyReturn ==
    /\ call.fn = "truthy_return"
    /\ ~call.done
    /\ call' = [call EXCEPT !.done = TRUE, !.result = truthy_return(call.val)]
    /\ UNCHANGED run_vars

CallCoerce ==
    /\ call.fn = "coerce"
    /\ ~call.done
    /\ call' = [call EXCEPT !.done = TRUE, !.result = coerce_count(call.val)]
    /\ UNCHANGED run_vars

NextCalls ==
    \/ CallTruthy
    \/ CallTruthyReturn
    \/ CallCoerce

SpecCalls == InitCalls /\ [][NextCalls]_vars

\* the expected results of the truthy table, as <<input, expected>>
TruthTable ==
    {<< <<"1">>, TRUE >>, << <<"y", "e", "s">>, TRUE >>, << <<"T", "R", "U", "E">>, TRUE >>,
     << <<" ", "y", " ">>, TRUE >>, << <<"0">>, FALSE >>, << <<"n", "o">>, FALSE >>,
     << <<>>, FALSE >>, << Missing, FALSE >>, << <<"2", ".", "5">>, TRUE >>,
     << <<"-", "1">>, FALSE >>}

\* c is w's character, in either case
SameLetter(c, w) ==
    c = w \/ \E n \in DOMAIN LowerCase : LowerCase[n] = w /\ UpperCase[n] = c

\* core is the text v without its leading and trailing blanks
IsTrimmed(v, core) ==
    \E i, j \in 0..Len(v) :
        /\ i + j <= Len(v)
        /\ core = SubSeq(v, i + 1, Len(v) - j)
        /\ \A k \in 1..i : v[k] = " "
        /\ \A k \in (Len(v) - j + 1)..Len(v) : v[k] = " "
        /\ core # <<>> => (core[1] # " " /\ core[Len(core)] # " ")

\* the specified meaning of truthy
ExpectedTruthy(v) ==
    /\ v # Missing
    /\ \E i, j \in 0..Len(v) :
          LET core == SubSeq(v, i + 1, Len(v) - j)
          IN  /\ i + j <= Len(v)
              /\ IsTrimmed(v, core)
              /\ \/ \E w \in AffirmativeWords :
                        Len(w) = Len(core) /\ \A k \in DOMAIN w : SameLetter(core[k], w[k])
                 \/ float_parses(core) /\ float_positive(core)

(* C13 -- Truthy parser: truthy(v) is true exactly when v is not missing   *)
(* and its trimmed, lower-cased text is one of the affirmative words or    *)
(* parses as a number strictly greater than 0; the table of the            *)
(* specification comes out as T,T,T,T,F,F,F,F,T,F; every copy of truthy    *)
(* returns the same result on every input.                                 *)
C13_TruthyParser ==
    (call.fn \in TruthyCopies /\ call.done) =>
        /\ call.result = ExpectedTruthy(call.val)
        /\ \A row \in TruthTable : row[1] = call.val => call.result = row[2]
        /\ truthy(call.val) = truthy_return(call.val)

\* the CSMBS copy was called on " y " and returned True
C13_Witness ==
    /\ call.fn = "truthy"
    /\ call.done
    /\ call.val = <<" ", "y", " ">>
    /\ call.result = TRUE

\* viz11: the per-right connection layers have been drawn
RightsDone == script = "viz11" /\ pc \in AfterWeights \cup {"weights"}

(* C14 -- Every script that restricts hospitals to those accepting a       *)
(* scheme decides eligibility with the truthy parser: a hospital is in the *)
(* eligible set exactly when truthy of its scheme cell is true, also in    *)
(* viz11's per-right connection layers.                                    *)
C14_EligibleByTruthy ==
    /\ (script \in Filtered /\ LoopFinished) => Range(csmbs_hospitals) = Eligible
    /\ RightsDone =>
          /\ Range(eligible) = Eligible
          /\ Eligible # {} => \A k \in DOMAIN communities : \E l \in Range(right_lines) : l.c = k

\* the same statement for the scripts that apply truthy to the column
C14_FilteredByTruthy ==
    /\ (script \in Filtered /\ LoopFinished) => Range(csmbs_hospitals) = Eligible
    /\ FindNearestDone => (nearest.right.h # None => nearest.right.h \in Eligible)

C19_NoInPlaceMutation ==
    [][pc # "done" => (hospitals' = hospitals /\ district_features' = district_features)]_vars

\* the features whose polygon has p in its interior or on its boundary
Touching(p) ==
    {i \in DOMAIN district_features :
        /\ district_features[i].geom
        /\ p.k = "ok"
        /\ p.v \in district_features[i].inside \cup district_features[i].edge}

\* p lies on a boundary shared by two regions and in no region's interior
OnSharedBoundary(p) ==
    /\ p.k = "ok"
    /\ \E i, j \in DOMAIN district_features :
          /\ i # j
          /\ p.v \in district_features[i].edge \cap district_features[j].edge
    /\ \A i \in DOMAIN district_features : p.v \notin district_features[i].inside

BoundaryCommunities == {k \in DOMAIN communities : OnSharedBoundary(communities[k].pos)}

(* C16 -- Boundary points: a community lying exactly on a polygon boundary  *)
(* shared by two adjacent regions is counted in exactly one region, the    *)
(* one that comes first in the input region list.                          *)
C16_BoundaryFirstRegion ==
    DistrictsDone =>
        \A n \in DOMAIN district_metrics :
            district_metrics[n].num_communities >=
                Cardinality({k \in BoundaryCommunities :
                    name_of(district_features[Least(Touching(communities[k].pos))]) = n})

\* a table with a malformed row, a well-formed row and no empty coordinate cell
OneMalformed(tbl) == some_bad(tbl) /\ some_ok(tbl) /\ ~some_nan(tbl)
WellFormed(tbl) == some_ok(tbl) /\ ~some_bad(tbl) /\ ~some_nan(tbl)

\* inputs whose only defect is a row with unparseable coordinates
OnlyMalformedRows ==
    /\ script \in {"congestion", "csmbs", "viz11"}
    /\ defect = "none"
    /\ \/ OneMalformed(hospitals) /\ WellFormed(communities)
       \/ WellFormed(hospitals) /\ OneMalformed(communities)
       \/ OneMalformed(hospitals) /\ OneMalformed(communities)
    /\ script \in Filtered =>
          \E h \in Range(csmbs_hospitals) : hospitals[h].pos.k = "ok"
    /\ \A i \in DOMAIN district_features : district_features[i].geom

(* C17 -- One malformed row never aborts a run: a hospital or community    *)
(* row whose coordinates fail to parse does not raise out of the run, the  *)
(* remaining rows are processed and the output is produced; also in viz11. *)
C17_MalformedRowTolerated == OnlyMalformedRows => pc # "aborted"

\* the part that holds: a malformed hospital row alone does not abort a guarded script
C17_MalformedHospitalTolerated ==
    (/\ script \in {"congestion", "csmbs"}
     /\ OnlyMalformedRows
     /\ WellFormed(communities)) => pc # "aborted"

Coerced == call.fn = "coerce" /\ call.done

(* C18 -- Numeric coercion: after loading, a population, bed-count or      *)
(* served-population cell is an integer >= 0; a missing or non-numeric     *)
(* value becomes 0 and no input value, negative numbers included, yields a *)
(* negative count.                                                         *)
C18_CountsNonNegative ==
    Coerced =>
        /\ call.result \in Nat
        /\ (isna(call.val) \/ ~float_parses(call.val)) => call.result = 0

\* the part that holds: the result is an integer, 0 for a missing or non-numeric cell,
\* and not negative unless the cell is a negative number
C18_CoercedInteger ==
    Coerced =>
        /\ call.result \in Int
        /\ (isna(call.val) \/ ~float_parses(call.val)) => call.result = 0
        /\ (call.val = <<>> \/ call.val[1] # "-") => call.result >= 0

\* the stages that read a hospital's weight: region aggregation, normalization, markers
WeightReaders == {"districts", "districts2", "publish", "render", "save", "done"}

(* C20 -- Compute-then-publish ordering: a hospital's weight is read by    *)
(* region aggregation, normalization or marker rendering only after the    *)
(* weight loop has consumed the complete assignment list, so no reader     *)
(* observes a partially accumulated weight.                                *)
C20_ComputeThenPublish ==
    (script \in Scripts \ {"bangchan"} /\ pc \in WeightReaders) =>
        /\ c_i = Len(communities)
        /\ Len(comm_assigned) = Len(communities)
        /\ w_i = Len(comm_assigned)
        /\ TotalWeight = Cardinality({k \in DOMAIN comm_assigned : comm_assigned[k].h # None})

\* the district loop has read a weight that took two iterations of the weight loop
C20_Witness ==
    /\ script \in {"viz11", "congestion"}
    /\ pc = "districts2"
    /\ w_i = 2
    /\ \E n \in DOMAIN district_metrics : district_metrics[n].sum_hospital_weights = 2

\* a required input is missing: a file the script needs, or a table's coordinate columns
RequiredMissing ==
    \/ defect \in {"no_hospitals_csv", "no_communities_csv",
                   "no_hospital_coords", "no_community_coords"}
    \/ defect = "no_districts" /\ script # "bangchan"

\* assignment and aggregation of the run are complete
RunComplete ==
    /\ script # "bangchan" =>
          /\ Len(comm_assigned) = Len(communities)
          /\ w_i = Len(comm_assigned)
          /\ DOMAIN weight = weight_rows \/ script = "ratcha"
    /\ script = "bangchan" => nearest # <<>>
    /\ script \in DistrictScripts =>
          /\ DOMAIN district_metrics = district_names
          /\ Len(out_features) = Len(published)

(* C21 -- No output on abort: the output file is written only after        *)
(* assignment and aggregation have completed, nothing of the run follows   *)
(* the write, an aborted run has written no output file, and a run whose   *)
(* required input file or coordinate column is missing never writes one.   *)
C21_NoOutputOnAbort ==
    /\ [](saved => (pc = "done" /\ RunComplete))
    /\ [](pc = "aborted" => ~saved)
    /\ [](RequiredMissing => (~saved /\ pc \notin {"save", "done"}))
    /\ [][(saved' /\ ~saved) => (pc = "save" /\ RunComplete)]_vars
    /\ [][saved => run' # run]_vars

\* viz11 aborted after its assignment for want of the districts file and wrote nothing
C21_Witness ==
    /\ script = "viz11"
    /\ defect = "no_districts"
    /\ pc = "aborted"
    /\ Len(comm_assigned) = 2
    /\ ~saved

\* a run was refused at its head because a table has no coordinate columns
C21_WitnessColumn ==
    /\ defect = "no_community_coords"
    /\ pc = "aborted"
    /\ communities # <<>>
    /\ ~saved

\* the rows whose point can be built and lies in no region polygon
UnmatchedHospitals ==
    {h \in DOMAIN hospitals : point_ok(hospitals[h].pos) /\ FirstContaining(hospitals[h].pos) = 0}
UnmatchedCommunities ==
    {k \in DOMAIN communities :
        point_ok(communities[k].pos) /\ FirstContaining(communities[k].pos) = 0}

MatchedHospitals == {h \in DOMAIN hospitals : FirstContaining(hospitals[h].pos) # 0}
MatchedCommunities == {k \in DOMAIN communities : FirstContaining(communities[k].pos) # 0}

RegionOf(p) == name_of(district_features[FirstContaining(p)])

CountedHospitals ==
    SumOver(DOMAIN district_metrics,
            [n \in DOMAIN district_metrics |-> district_metrics[n].num_hospitals])
CountedCommunities ==
    SumOver(DOMAIN district_metrics,
            [n \in DOMAIN district_metrics |-> district_metrics[n].num_communities])

(* C22 -- Unmatched points are recoverable: a hospital or community whose  *)
(* point lies in no region polygon raises nothing and adds to no region's  *)
(* counters (a loop over unmatched points only leaves every counter as it  *)
(* was), and the points that do match are still counted.                   *)
C22_UnmatchedRecoverable ==
    /\ [][(/\ pc = "districts"
           /\ UnmatchedHospitals # {}
           /\ defect = "none"
           /\ \A i \in DOMAIN district_features : district_features[i].geom)
          => (/\ pc' = "districts2"
              /\ MatchedHospitals = {} =>
                    \A n \in DOMAIN district_metrics' : district_metrics'[n] = zero_counters)]_vars
    /\ [][pc = "districts2"
          => (/\ pc' = "publish"
              /\ MatchedCommunities = {} => district_metrics' = district_metrics)]_vars
    /\ [](DistrictsDone =>
            /\ CountedHospitals <= Cardinality(MatchedHospitals)
            /\ CountedCommunities = Cardinality(MatchedCommunities)
            /\ \A k \in MatchedCommunities :
                  district_metrics[RegionOf(communities[k].pos)].num_communities >= 1
            /\ \A h \in MatchedHospitals :
                  RegionOf(hospitals[h].pos) # NoName =>
                     district_metrics[RegionOf(hospitals[h].pos)].num_hospitals >= 1)

\* viz11 met an unmatched hospital and an unmatched community before matched ones
C22_Witness ==
    /\ script = "viz11"
    /\ DistrictsDone
    /\ as_loaded(district_features) = LayoutGap
    /\ Len(hospitals) = 2 /\ Len(communities) = 2
    /\ 1 \in UnmatchedHospitals /\ 2 \in MatchedHospitals
    /\ 1 \in UnmatchedCommunities /\ 2 \in MatchedCommunities
    /\ district_metrics["A"].num_hospitals = 1
    /\ district_metrics["A"].num_communities = 1

\* entry e pairs a missing hospital with a missing distance, or a hospital with a distance
NoneTogether(e) == (e.h = None) <=> (e.d = None)

(* C23 -- In every assignment entry the hospital is none exactly when the  *)
(* distance is none: no entry pairs a hospital with a missing distance or  *)
(* a missing hospital with a numeric or infinite distance, in any script,  *)
(* viz11 included; likewise for the results of find_nearest.               *)
C23_NoneIffNone ==
    /\ \A k \in DOMAIN comm_assigned : NoneTogether(comm_assigned[k])
    /\ FindNearestDone => (NoneTogether(nearest.any) /\ NoneTogether(nearest.right))

\* the part that holds: the scripts that replace an infinite minimum by None
C23_GuardedNoneIffNone ==
    /\ script \in Guarded => \A k \in DOMAIN comm_assigned : NoneTogether(comm_assigned[k])
    /\ FindNearestDone => (NoneTogether(nearest.any) /\ NoneTogether(nearest.right))
    /\ \A k \in DOMAIN comm_assigned :
          comm_assigned[k].h # None => comm_assigned[k].d \in 0..(inf - 1)

\* the run is over: the output is saved, or the run failed and wrote nothing
Completed == pc = "done" /\ saved
Failed == pc = "aborted" /\ ~saved

(* C24 -- Termination: from every stage of a started run, the assignment  *)
(* and aggregation loops included, the run eventually either completes     *)
(* with the output saved or fails outright; no run blocks or loops         *)
(* forever.                                                                *)
C24_Termination == (pc \notin {"done", "aborted"}) ~> (Completed \/ Failed)

\* a run with two passes of the nested assignment loop and the district loops completed
C24_Witness ==
    /\ Completed
    /\ script = "congestion"
    /\ Len(hospitals) = 2
    /\ c_i = 2
    /\ w_i = 2
    /\ district_features # <<>>

\* a run that failed outright on an unrecoverable input error
C24_WitnessFailed == Failed /\ RequiredMissing

\* ratcha: the selections of the district map have been made
SelectionDone ==
    script = "ratcha" /\ pc \in {"districts", "districts2", "publish", "render", "save", "done"}

\* the point is contained in the polygon of the target district
InTarget(p) ==
    /\ p.k = "ok"
    /\ p.v \in district_features[Least(FeaturesNamed(TARGET_DISTRICT))].inside

\* the hospital assigned to community row k, None when there is none
AssignedHospital(k) == comm_assigned[k].h

ExpectedShown ==
    {k \in DOMAIN communities :
        /\ communities[k].pos.k # "bad"
        /\ \/ InTarget(communities[k].pos)
           \/ /\ AssignedHospital(k) # None
              /\ InTarget(hospitals[AssignedHospital(k)].pos)}

ExpectedLinkedOutside ==
    {AssignedHospital(k) : k \in {j \in DOMAIN communities :
                                     /\ InTarget(communities[j].pos)
                                     /\ AssignedHospital(j) # None
                                     /\ ~InTarget(hospitals[AssignedHospital(j)].pos)}}

ShownCommunities == {comm_to_show[k].c : k \in DOMAIN comm_to_show}

(* C25 -- Ratchathewi distance maps: the communities shown are exactly the *)
(* communities with parseable coordinates that are contained in the target *)
(* district polygon or whose assigned nearest hospital is contained in it, *)
(* each shown once with its assignment entry; the linked outside hospitals *)
(* are exactly the assigned hospitals, not contained in the target         *)
(* district, of communities that are contained in it.                      *)
C25_ShownAndLinked ==
    SelectionDone =>
        /\ ShownCommunities = ExpectedShown
        /\ Len(comm_to_show) = Cardinality(ExpectedShown)
        /\ \A k \in DOMAIN comm_to_show : comm_to_show[k] = comm_assigned[comm_to_show[k].c]
        /\ linked_outside_hospitals_idx = ExpectedLinkedOutside

\* an outside community shown for its hospital inside, next to an inside community
C25_Witness ==
    /\ SelectionDone
    /\ as_loaded(district_features) = LayoutGap
    /\ Len(communities) = 2
    /\ communities[1].pos = [k |-> "ok", v |-> 2]
    /\ communities[2].pos = [k |-> "ok", v |-> 1]
    /\ ShownCommunities = {1, 2}
    /\ h_in_set # {}
    /\ \E h \in DOMAIN hospitals : h \notin h_in_set /\ hospitals[h].pos.k = "ok"

\* an inside community linked to an outside hospital; an outside community not shown
C25_WitnessLinked ==
    /\ SelectionDone
    /\ as_loaded(district_features) = LayoutGap
    /\ Len(communities) = 2
    /\ ShownCommunities = {1}
    /\ linked_outside_hospitals_idx # {}
    /\ communities[2].pos.k = "ok"

\* wkr: the target hospital and its linked communities have been determined
LinkedDone == script = "wkr" /\ pc \in {"render", "save", "done"}

\* the hospitals carrying the target name
Matched == {h \in DOMAIN hospitals : hospitals[h].name = TARGET_HOSPITAL_NAME}

\* brute force: the communities whose nearest hospital over the whole table is a match
NearestIsTarget ==
    {k \in DOMAIN communities :
        /\ communities[k].pos.k = "ok"
        /\ Candidates # {}
        /\ Least(Closest(k, Candidates)) \in Matched}

LinkedCommunities == {linked_comms[k].c : k \in DOMAIN linked_comms}

(* C26 -- WKRHOSP map: the linked communities are exactly the communities  *)
(* whose globally nearest hospital is a hospital matching the target name, *)
(* each linked once with its assignment entry, and the weights shown for   *)
(* the matched hospitals sum to the number of linked communities.          *)
C26_LinkedToTarget ==
    LinkedDone =>
        /\ LinkedCommunities = NearestIsTarget
        /\ Len(linked_comms) = Cardinality(NearestIsTarget)
        /\ \A k \in DOMAIN linked_comms : linked_comms[k] = comm_assigned[linked_comms[k].c]
        /\ SumOver(Matched, weight) = Len(linked_comms)

\* one community linked to the target hospital, the other assigned to another hospital
C26_Witness ==
    /\ LinkedDone
    /\ Len(communities) = 2
    /\ Len(linked_comms) = 1
    /\ \A k \in DOMAIN comm_assigned : comm_assigned[k].h # None
    /\ \E h \in Matched : weight[h] = 1

\* the rows whose coordinates float() rejects
Unparsed(tbl) == {k \in DOMAIN tbl : tbl[k].pos.k = "bad"}

\* the weight of hospital row h as the script's weight structure holds it
WeightOf(h) ==
    IF script = "ratcha"
    THEN (IF h \in DOMAIN h_metrics_global THEN h_metrics_global[h].num_communities ELSE 0)
    ELSE FilteredWeight(h)

(* C27 -- In the scripts with per-row try/except, a hospital whose         *)
(* coordinates fail to parse is never the nearest hospital of a community  *)
(* and its weight stays 0, and a community whose coordinates fail to parse *)
(* is recorded as (community, none, none) and adds to no hospital's        *)
(* weight.                                                                 *)
C27_UnparsedRowsSkipped ==
    script \in Guarded =>
        /\ \A k \in DOMAIN comm_assigned : comm_assigned[k].h \notin Unparsed(hospitals)
        /\ FindNearestDone =>
              /\ nearest.any.h \notin Unparsed(hospitals)
              /\ nearest.right.h \notin Unparsed(hospitals)
        /\ \A h \in Unparsed(hospitals) : WeightOf(h) = 0
        /\ \A k \in DOMAIN comm_assigned :
              comm_assigned[k].c \in Unparsed(communities) =>
                 comm_assigned[k] = [c |-> comm_assigned[k].c, h |-> None, d |-> None]
        /\ \A h \in DOMAIN hospitals :
              WeightOf(h) <= Cardinality(AssignedTo(h) \ Unparsed(communities))

\* weights counted over a table with an unparseable hospital and an unparseable community
C27_Witness ==
    /\ script \in {"congestion", "ratcha"}
    /\ pc \in AfterWeights
    /\ Unparsed(hospitals) # {}
    /\ Unparsed(communities) # {}
    /\ \E h \in DOMAIN hospitals : WeightOf(h) = 1
    /\ Len(comm_assigned) = 2

\* the rows whose first containing polygon is a feature named n
HospitalsNamed(n) == UNION {HospitalsIn(i) : i \in FeaturesNamed(n)}
CommunitiesNamed(n) == UNION {CommunitiesIn(i) : i \in FeaturesNamed(n)}

\* the counters of all features named n taken together
Combined(n) ==
    [num_hospitals |-> Cardinality(HospitalsNamed(n)),
     num_communities |-> Cardinality(CommunitiesNamed(n)),
     sum_hospital_weights |-> SumOver(HospitalsNamed(n), ComputedWeight)]

\* n is carried by two or more features
SharedName(n) == Cardinality(FeaturesNamed(n)) >= 2

SharedRecord(n) ==
    /\ district_metrics[n] = Combined(n)
    /\ Emitted =>
          \A k \in DOMAIN out_features :
             name_of(district_features[published[k]]) = n =>
                /\ out_features[k].num_hospitals = Combined(n).num_hospitals
                /\ out_features[k].num_communities = Combined(n).num_communities
                /\ out_features[k].sum_hospital_weights = Combined(n).sum_hospital_weights

(* C28 -- Region counters are keyed by region name: features carrying the  *)
(* same name, or no name, share one metrics record, the points first-      *)
(* matched to any of them are accumulated together, and each of those      *)
(* features is emitted with the same combined num_hospitals,               *)
(* num_communities and sum_hospital_weights.                               *)
C28_KeyedByName ==
    DistrictsDone => \A n \in district_names : SharedName(n) => SharedRecord(n)

\* the part that holds: named features in every script, nameless ones outside viz11
C28_ExceptNullDistrict ==
    DistrictsDone =>
        \A n \in district_names :
            (SharedName(n) /\ (n # NoName \/ script # "viz11")) => SharedRecord(n)

\* two features named alike emitted with the counters of both
C28_WitnessSameName ==
    /\ Emitted
    /\ as_loaded(district_features) = LayoutSameName
    /\ HospitalsIn(1) # {} /\ HospitalsIn(2) # {}
    /\ CommunitiesIn(1) # {} /\ CommunitiesIn(2) # {}
    /\ out_features[1].num_hospitals = 2
    /\ out_features[2].num_communities = 2

\* ratcha: the hospitals that get a marker
DisplayedHospitals == h_in_set \cup linked_outside_hospitals_idx

\* ratcha: the connection layer has been drawn
LinesDrawn == script = "ratcha" /\ pc \in {"save", "done"}

(* C29 -- Ratchathewi distance maps: every connection line drawn from a    *)
(* shown community ends at a displayed hospital: the assigned hospital of  *)
(* every shown community that has one is in the set of hospitals inside    *)
(* the target district or in the set of linked outside hospitals, and the  *)
(* lines drawn are the lines of exactly those communities.                 *)
C29_LinesEndDisplayed ==
    /\ SelectionDone =>
          \A k \in DOMAIN comm_to_show :
             comm_to_show[k].h # None => comm_to_show[k].h \in DisplayedHospitals
    /\ LinesDrawn =>
          /\ \A k \in DOMAIN conn_layer : conn_layer[k].h \in DisplayedHospitals
          /\ {conn_layer[k].c : k \in DOMAIN conn_layer}
                = {comm_to_show[k].c : k \in {j \in DOMAIN comm_to_show : comm_to_show[j].h # None}}

\* one line ends at a hospital inside the district, another at a linked outside hospital
C29_Witness ==
    /\ LinesDrawn
    /\ Len(conn_layer) = 2
    /\ conn_layer[1].h \in linked_outside_hospitals_idx
    /\ conn_layer[2].h \in h_in_set

---------------------------------------------------------------------------
(* C30: Bangchanpattana: whenever find_nearest with a rights predicate     *)
(* (UHC, SSS or CSMBS) returns a hospital, find_nearest with no predicate  *)
(* also returns a hospital and its distance is less than or equal to the   *)
(* filtered distance; and when the unfiltered search returns (None, None)  *)
(* all three filtered searches return (None, None).                        *)
FilteredResults == {nearest.uhc, nearest.sss, nearest.right}

NotFound == [h |-> None, d |-> None]

C30_UnfilteredDominates ==
    FindNearestDone =>
        /\ \A f \in FilteredResults :
              f.h # None => (nearest.any.h # None /\ nearest.any.d <= f.d)
        /\ nearest.any = NotFound => FilteredResults = {NotFound}

\* a filtered search settles for a hospital farther than the unfiltered one
C30_Witness ==
    /\ FindNearestDone
    /\ nearest.any.h # None
    /\ nearest.sss.h # None
    /\ nearest.sss.h # nearest.any.h
    /\ nearest.any.d < nearest.sss.d
    /\ nearest.uhc.h = nearest.any.h

\* no row can be measured: all four searches find nothing
C30_WitnessNone ==
    /\ FindNearestDone
    /\ Len(hospitals) = MaxHosp
    /\ \E k \in DOMAIN hospitals : truthy(hospitals[k].uhc)
    /\ nearest.any = NotFound
    /\ FilteredResults = {NotFound}

=============================================================================
